---------------------------- MODULE Spec2Model ----------------------------
(***************************************************************************)
(* A model of src/EmBencode.h: the buffer-owning bencode encoder           *)
(* EmBencode<bufLen>, the incremental decoder EmBdecode<bufLen> and its    *)
(* token iterator (nextToken / asString / asNumber).                       *)
(*                                                                         *)
(* Bytes are the integers 0..255.  A char holds the same eight bits as the *)
(* byte it was converted from; only the nesting counter `level` is ever    *)
(* compared as a number, so the signedness of char is carried for it.      *)
(***************************************************************************)
EXTENDS Integers, Sequences, FiniteSets, TLC

VARIABLES
    enc,       \* the EmBencode object (buffer, buffIdx) and the trace of its stores
    calls,     \* the encoder calls made since its last reset (the message), in order
    dec,       \* the EmBdecode object (level, buffer, count, next, last, state)
    wire,      \* the bytes of the message being fed to the decoder
    cycle,     \* which decode cycle of this decoder is running (1: the first)
    pos,       \* how many bytes have been passed to process()
    ret,       \* what the latest process() call returned
    phase,     \* "enc" | "feed" | "walk" | "done"
    toks,      \* the tokens read by nextToken/asString/asNumber, in order
    tok,       \* what the latest nextToken() call returned (-1: none yet)
    endCalls,  \* nextToken() calls made since the one that returned T_END first, it included
    endPos,    \* the read cursor when T_END was returned first
    inp,       \* the byte passed to the latest process() call (-1: none, or not recorded)
    ref,       \* a second EmBdecode object, passed the same bytes as dec
    refRet     \* what the latest process() call on ref returned

vars == <<enc, calls, dec, wire, cycle, pos, ret, phase, toks, tok, endCalls, endPos,
          inp, ref, refRet>>

---------------------------------------------------------------------------
(* Characters the code compares against or emits.                          *)
Ch0     == 48
Ch9     == 57
ChColon == 58
ChMinus == 45
ChD     == 100
ChE     == 101
ChI     == 105
ChL     == 108

(* enum { EMB_ANY, EMB_LEN, EMB_INT, EMB_STR }                             *)
EMB_ANY == 0
EMB_LEN == 1
EMB_INT == 2
EMB_STR == 3

(* enum { T_STRING = 0, T_NUMBER = 251, T_DICT, T_LIST, T_POP, T_END }     *)
T_STRING == 0
T_NUMBER == 251
T_DICT   == 252
T_LIST   == 253
T_POP    == 254
T_END    == 255

(* uint8_t holds 0..255; the cursor and counters are reduced modulo this.  *)
ByteMod == 256

(* The smallest value of a 32-bit long.                                    *)
LongMin == -2147483647 - 1

(* Conversion of an int to uint8_t, or to the bit pattern of a char.       *)
ToByte(x) == x % ByteMod

(* Conversion of an int to `char` as a number: -128..127 where char is     *)
(* signed, 0..255 where it is unsigned.                                    *)
ToChar(x, isSigned) ==
    IF isSigned THEN ((x + 128) % ByteMod) - 128 ELSE x % ByteMod

(* What storage that was never written can hold.                           *)
Garbage == {0, 49, 255}

RECURSIVE Reverse(_)
Reverse(s) == IF s = <<>> THEN <<>> ELSE Reverse(Tail(s)) \o <<Head(s)>>

Fill(n, b) == [i \in 1..n |-> b]

---------------------------------------------------------------------------
(*                              The encoder                                *)

(* A uint32_t as the pair of its 16-bit halves: 2^31, the magnitude of the *)
(* smallest long, is above what the model checker's integers hold.         *)
HalfMod == 65536

(* (uint32_t) val for a 32-bit long val.                                   *)
ToU32(val) ==
    IF val >= 0
    THEN [hi |-> val \div HalfMod, lo |-> val % HalfMod]
    ELSE LET x == val - LongMin     \* val + 2^31, in 0..2^31-1
         IN  [hi |-> (x \div HalfMod) + (HalfMod \div 2), lo |-> x % HalfMod]

(* ultoa(num, buf, 10): the decimal digits of num, produced from the least *)
(* significant one by repeated division by ten and then reversed.          *)
RECURSIVE RevDigits(_)
RevDigits(u) ==
    LET t  == (u.hi % 10) * HalfMod + u.lo
        q  == [hi |-> u.hi \div 10, lo |-> t \div 10]
        dg == Ch0 + (t % 10)
    IN  IF q.hi = 0 /\ q.lo = 0 THEN <<dg>> ELSE <<dg>> \o RevDigits(q)

Ultoa(u) == Reverse(RevDigits(u))

(* A constructed EmBencode<bufLen>: buffIdx = 0, buffer not initialised.   *)
(* wr, wrapped and ub are the trace of the object's stores: the indices    *)
(* stored to by the current call, whether buffIdx has wrapped from 255 to  *)
(* 0, and whether the object has executed an undefined operation (a store  *)
(* outside buffer, a trapping negation), after which nothing it does is    *)
(* followed.                                                               *)
EncNew(bufLen, g) ==
    [bufLen |-> bufLen, buffer |-> [i \in 0..(bufLen - 1) |-> g], buffIdx |-> 0,
     wr |-> <<>>, wrapped |-> FALSE, ub |-> FALSE]

(* void PushChar(char ch) { buffer[buffIdx] = ch; buffIdx++; }             *)
PushChar(e, ch) ==
    IF e.ub THEN e
    ELSE IF e.buffIdx >= e.bufLen
    THEN [e EXCEPT !.wr = Append(@, e.buffIdx), !.ub = TRUE]
    ELSE [e EXCEPT !.buffer[e.buffIdx] = ToByte(ch),
                   !.buffIdx = (@ + 1) % ByteMod,
                   !.wr = Append(@, e.buffIdx),
                   !.wrapped = @ \/ (e.buffIdx + 1 >= ByteMod)]

(* void PushData(const void* ptr, uint8_t len): PushChar on each byte.     *)
(* The bytes are taken in order, the first half before the second (the     *)
(* halving only keeps the evaluation shallow); once a store has left the   *)
(* buffer the rest is not followed.                                        *)
RECURSIVE PushData(_, _)
PushData(e, bytes) ==
    IF bytes = <<>> THEN e
    ELSE IF Len(bytes) = 1 THEN PushChar(e, bytes[1])
    ELSE LET h == Len(bytes) \div 2
             m == PushData(e, SubSeq(bytes, 1, h))
         IN  IF m.ub THEN m ELSE PushData(m, SubSeq(bytes, h + 1, Len(bytes)))

(* void PushEnd() { PushChar('e'); }                                       *)
PushEnd(e) == PushChar(e, ChE)

(* void PushCount(uint32_t num): ultoa, then PushData of its digits.       *)
PushCount(e, u) == PushData(e, Ultoa(u))

(* void push(const void* ptr, uint8_t len): the length is passed as a      *)
(* uint8_t, and that many bytes are read from ptr.                         *)
PushBytes(e, bytes) ==
    LET len == ToByte(Len(bytes))
    IN  PushData(PushChar(PushCount(e, ToU32(len)), ChColon), SubSeq(bytes, 1, len))

(* val = -val: exact unless val is the smallest long, where the negation   *)
(* overflows (undefined).  A wrapping build leaves val unchanged (and a    *)
(* build with a wider long yields 2^31, the same uint32_t); a build that   *)
(* traps on signed overflow stops there.                                   *)
NegateOutcomes(val) ==
    IF val = LongMin
    THEN {[trap |-> FALSE, val |-> LongMin], [trap |-> TRUE, val |-> 0]}
    ELSE {[trap |-> FALSE, val |-> 0 - val]}

(* void push(long val), for one outcome o of the negation.                 *)
PushLong(e, val, o) ==
    LET e1 == PushChar(e, ChI)
    IN  IF val < 0
        THEN LET e2 == PushChar(e1, ChMinus)
             IN  IF o.trap THEN [e2 EXCEPT !.ub = TRUE]
                 ELSE PushEnd(PushCount(e2, ToU32(o.val)))
        ELSE PushEnd(PushCount(e1, ToU32(val)))

(* void pushZero()                                                         *)
PushZero(e) == PushEnd(PushChar(PushChar(e, ChI), Ch0))

(* void startList() / endList() / startDict() / endDict()                  *)
StartList(e) == PushChar(e, ChL)
EndList(e)   == PushEnd(e)
StartDict(e) == PushChar(e, ChD)
EndDict(e)   == PushEnd(e)

(* void reset(): memset(&buffer, 0, sizeof(buffer)); buffIdx = 0;          *)
EncResetOp(e) ==
    [e EXCEPT !.buffer = [i \in 0..(e.bufLen - 1) |-> 0], !.buffIdx = 0,
              !.wr = <<>>, !.wrapped = FALSE]

(* The calls of the encoder's interface, as values.                        *)
CStr(b)  == [val |-> 0, bytes |-> b,    op |-> "push_bytes"]
CInt(v)  == [val |-> v, bytes |-> <<>>, op |-> "push_long"]
CZero    == [val |-> 0, bytes |-> <<>>, op |-> "pushZero"]
CSL      == [val |-> 0, bytes |-> <<>>, op |-> "startList"]
CEL      == [val |-> 0, bytes |-> <<>>, op |-> "endList"]
CSD      == [val |-> 0, bytes |-> <<>>, op |-> "startDict"]
CED      == [val |-> 0, bytes |-> <<>>, op |-> "endDict"]

(* Start of a call: the trace of stores is that of this call alone.        *)
Begin(e) == [e EXCEPT !.wr = <<>>]

(* The states one call can leave the encoder in.                           *)
Apply(e, c) ==
    CASE c.op = "push_bytes" -> {PushBytes(Begin(e), c.bytes)}
      [] c.op = "push_long"  -> {PushLong(Begin(e), c.val, o) : o \in NegateOutcomes(c.val)}
      [] c.op = "pushZero"   -> {PushZero(Begin(e))}
      [] c.op = "startList"  -> {StartList(Begin(e))}
      [] c.op = "endList"    -> {EndList(Begin(e))}
      [] c.op = "startDict"  -> {StartDict(Begin(e))}
      [] c.op = "endDict"    -> {EndDict(Begin(e))}

---------------------------------------------------------------------------
(*                              The decoder                                *)

(* A constructed EmBdecode<bufLen>: the constructor calls reset() on       *)
(* fields that were never written, so count and last hold garbage and so   *)
(* does buffer.  isSigned is the build's signedness of char (the type of   *)
(* level).  wr, ovf and att are the trace of the object's stores: the      *)
(* indices stored to by the current call, whether the latest AddToBuf      *)
(* found the buffer full, and how many AddToBuf calls the latest message   *)
(* has made (counted from the first one after a reset).                    *)
DecNew(bufLen, isSigned, g) ==
    [bufLen |-> bufLen, isSigned |-> isSigned,
     level |-> 0, buffer |-> [i \in 0..(bufLen - 1) |-> g],
     count |-> g, next |-> 0, last |-> g, state |-> EMB_ANY,
     wr |-> <<>>, ovf |-> FALSE, att |-> 0]

(* Where a store to buffer[0] on a full buffer goes.                       *)
FullSlot == 0

(* AddToBuf with the full test off by one: the store at buffer[bufLen] is  *)
(* made.                                                                   *)
AddToBufPastEnd(d, ch) ==
    IF d.next > d.bufLen
    THEN [d EXCEPT !.buffer[FullSlot] = T_END,
                   !.wr = Append(@, FullSlot), !.ovf = TRUE, !.att = @ + 1]
    ELSE [d EXCEPT !.buffer = [i \in DOMAIN @ |-> IF i = d.next THEN ToByte(ch) ELSE @[i]],
                   !.next = (@ + 1) % ByteMod,
                   !.wr = Append(@, d.next), !.ovf = FALSE,
                   !.att = IF d.next = 0 THEN 1 ELSE @ + 1]

(* AddToBuf that drops the byte on a full buffer and leaves slot 0 alone.  *)
AddToBufUnmarked(d, ch) ==
    IF d.next >= d.bufLen
    THEN [d EXCEPT !.ovf = TRUE, !.att = @ + 1]
    ELSE [d EXCEPT !.buffer[d.next] = ToByte(ch),
                   !.next = (@ + 1) % ByteMod,
                   !.wr = Append(@, d.next), !.ovf = FALSE,
                   !.att = IF d.next = 0 THEN 1 ELSE @ + 1]

(* AddToBuf that starts over at slot 0 on a full buffer.                   *)
AddToBufWrapping(d, ch) ==
    IF d.next >= d.bufLen
    THEN [d EXCEPT !.buffer[FullSlot] = ToByte(ch),
                   !.next = 1 % ByteMod,
                   !.wr = Append(@, FullSlot), !.ovf = TRUE, !.att = @ + 1]
    ELSE [d EXCEPT !.buffer[d.next] = ToByte(ch),
                   !.next = (@ + 1) % ByteMod,
                   !.wr = Append(@, d.next), !.ovf = FALSE,
                   !.att = IF d.next = 0 THEN 1 ELSE @ + 1]

(* void AddToBuf(char ch)                                                  *)
(* AddToBuf that drops a zero byte instead of storing it.                  *)
AddToBufNonZero(d, ch) ==
    IF ToByte(ch) = 0 THEN d
    ELSE IF d.next >= d.bufLen
    THEN [d EXCEPT !.buffer[FullSlot] = T_END,
                   !.wr = Append(@, FullSlot), !.ovf = TRUE, !.att = @ + 1]
    ELSE [d EXCEPT !.buffer[d.next] = ToByte(ch),
                   !.next = (@ + 1) % ByteMod,
                   !.wr = Append(@, d.next), !.ovf = FALSE,
                   !.att = IF d.next = 0 THEN 1 ELSE @ + 1]

AddToBuf(d, ch) ==
    IF d.next >= d.bufLen
    THEN [d EXCEPT !.buffer[FullSlot] = T_END,
                   !.wr = Append(@, FullSlot), !.ovf = TRUE, !.att = @ + 1]
    ELSE [d EXCEPT !.buffer[d.next] = ToByte(ch),
                   !.next = (@ + 1) % ByteMod,
                   !.wr = Append(@, d.next), !.ovf = FALSE,
                   !.att = IF d.next = 0 THEN 1 ELSE @ + 1]

(* reset() without the assignment to next: the cursor stays where the      *)
(* message ended.                                                          *)
DecResetKeepingCursor(d) ==
    [d EXCEPT !.count = d.next, !.level = 0, !.state = EMB_ANY]

(* reset() without the assignment to state.                                *)
DecResetKeepingState(d) ==
    [d EXCEPT !.count = d.next, !.level = 0, !.next = 0]

(* uint8_t reset(): count = next; level = next = 0; state = EMB_ANY;       *)
(* return count;  The returned value is the count field of the result.     *)
DecReset(d) ==
    [d EXCEPT !.count = d.next, !.level = 0, !.next = 0, !.state = EMB_ANY]

(* ++level and --level on a char.                                          *)
IncLevel(d) == [d EXCEPT !.level = ToChar(@ + 1, d.isSigned)]
DecLevel(d) == [d EXCEPT !.level = ToChar(@ - 1, d.isSigned)]

(* if (ch < '0' || ch > '9') is false                                      *)
(* The digit test with its upper limit one character too far: ':' passes.  *)
IsDigitOrColon(ch) == Ch0 <= ch /\ ch <= ChColon

IsDigit(ch) == Ch0 <= ch /\ ch <= Ch9

(* The switch of process(): the object after it, and whether it was left   *)
(* by a break (an item has ended) rather than by return 0.                 *)
Switch(d, ch) ==
    IF d.state = EMB_ANY /\ ~IsDigit(ch)
    THEN IF ch = ChI
         THEN [d |-> [AddToBuf(d, T_NUMBER) EXCEPT !.state = EMB_INT], brk |-> FALSE]
         ELSE IF ch = ChD \/ ch = ChL
         THEN [d |-> IncLevel(AddToBuf(d, IF ch = ChD THEN T_DICT ELSE T_LIST)),
               brk |-> FALSE]
         ELSE IF ch = ChE
         THEN [d |-> DecLevel(AddToBuf(d, T_POP)), brk |-> TRUE]
         ELSE [d |-> d, brk |-> FALSE]
    ELSE IF d.state = EMB_ANY \/ d.state = EMB_LEN
    THEN \* case EMB_ANY with a digit falls through into case EMB_LEN
         LET d1 == IF d.state = EMB_ANY
                   THEN [d EXCEPT !.state = EMB_LEN, !.count = 0] ELSE d
         IN  IF ch = ChColon
             THEN LET d2 == AddToBuf(d1, T_STRING + d1.count)
                  IN  IF d1.count = 0
                      THEN [d |-> AddToBuf(d2, 0), brk |-> TRUE]
                      ELSE [d |-> [d2 EXCEPT !.state = EMB_STR], brk |-> FALSE]
             ELSE [d |-> [d1 EXCEPT !.count = ToByte(10 * d1.count + (ch - Ch0))],
                   brk |-> FALSE]
    ELSE IF d.state = EMB_STR
    THEN LET d1 == AddToBuf(d, ch)
             d2 == [d1 EXCEPT !.count = ToByte(@ - 1)]
         IN  IF d2.count = 0
             THEN [d |-> AddToBuf(d2, 0), brk |-> TRUE]
             ELSE [d |-> d2, brk |-> FALSE]
    ELSE \* case EMB_INT
         IF ch = ChE
         THEN [d |-> AddToBuf(d, 0), brk |-> TRUE]
         ELSE [d |-> AddToBuf(d, ch), brk |-> FALSE]

(* The scope test off by one: the first level does not count.              *)
InsideScopeAboveOne(d) == d.level > 1

(* The test that decides, after an item has ended, that the decoder is     *)
(* still inside a list or dictionary.                                      *)
(* The test level != 0: a negative level counts as an open scope.          *)
InsideScopeNonZero(d) == d.level # 0

InsideScope(d) == d.level > 0

(* uint8_t process(char ch): the object after the call and the value       *)
(* returned.                                                               *)
Process(d0, ch) ==
    LET s == Switch([d0 EXCEPT !.wr = <<>>], ch)
    IN  IF ~s.brk THEN [d |-> s.d, ret |-> 0]
        ELSE IF InsideScope(s.d)
        THEN [d |-> [s.d EXCEPT !.state = EMB_ANY], ret |-> 0]
        ELSE LET d3 == DecReset(AddToBuf(s.d, T_END))
             IN  [d |-> d3, ret |-> d3.count]

(* A read of buffer[i]: outside the array it yields whatever lies there.   *)
Rd(d, i, g) == IF i < d.bufLen THEN d.buffer[i] ELSE g

(* The scan leaving the cursor on the zero byte, not past it.              *)
ScanToZero(d, i, g) ==
    LET Z == {k \in 0..(ByteMod - 1) : Rd(d, (i + k) % ByteMod, g) = 0}
    IN  IF Z = {} THEN -1
        ELSE (i + (CHOOSE k \in Z : \A j \in Z : k <= j)) % ByteMod

(* while (buffer[next++] != 0) ;  The cursor after the loop, or -1 when a  *)
(* whole turn of the 8-bit cursor meets no zero byte (the loop goes on).   *)
ScanZero(d, i, g) ==
    LET Z == {k \in 0..(ByteMod - 1) : Rd(d, (i + k) % ByteMod, g) = 0}
    IN  IF Z = {} THEN -1
        ELSE (i + (CHOOSE k \in Z : \A j \in Z : k <= j) + 1) % ByteMod

(* The cursor left past the END tag.                                       *)
MovePastEnd(n1) == ToByte(n1)

(* What nextToken() does to the cursor on reading the END tag.             *)
StayAtEnd(n1) == ToByte(n1 - 1)

(* uint8_t nextToken(): the object after the call and the value returned.  *)
NextToken(d0, g) ==
    LET d  == [d0 EXCEPT !.wr = <<>>]
        ch == Rd(d, d.next, g)
        n1 == (d.next + 1) % ByteMod
        d1 == [d EXCEPT !.next = n1, !.last = n1]
    IN  IF ch = T_NUMBER
        THEN [d |-> [d1 EXCEPT !.next = ScanZero(d1, n1, g)], tok |-> ch]
        ELSE IF ch = T_END
        THEN [d |-> [d1 EXCEPT !.next = StayAtEnd(n1)], tok |-> ch]
        ELSE IF ch = T_DICT \/ ch = T_LIST \/ ch = T_POP
        THEN [d |-> d1, tok |-> ch]
        ELSE [d |-> [d1 EXCEPT !.next = ToByte(n1 + ch + 1)], tok |-> T_STRING]

(* const char* asString(uint8_t* plen): the position returned and *plen.   *)
AsString(d) == [ptr |-> d.last, len |-> ToByte(d.next - d.last - 1)]

(* The len bytes at the position asString() returns.                       *)
Payload(d, g) ==
    LET s == AsString(d) IN [i \in 1..s.len |-> Rd(d, s.ptr + i - 1, g)]

(* The zero-terminated text at buffer + last, as atol reads it.            *)
(* No more than a long's text is looked at: atol stops at the first         *)
(* character that is no digit.                                             *)
TextAt(d, i, g) ==
    LET Z == {k \in 0..12 : Rd(d, i + k, g) = 0}
        n == IF Z = {} THEN 12 ELSE CHOOSE k \in Z : \A j \in Z : k <= j
    IN  [j \in 1..n |-> Rd(d, i + j - 1, g)]

(* The digits at the head of a text, accumulated as a negative number so   *)
(* that the smallest long is reached without overflow; ok is FALSE when    *)
(* the value leaves the range of long.                                     *)
RECURSIVE NegDigits(_, _)
NegDigits(t, acc) ==
    IF t = <<>> \/ ~IsDigit(Head(t)) THEN [ok |-> TRUE, val |-> acc]
    ELSE LET dg == Head(t) - Ch0
         IN  IF acc < (LongMin + dg) \div 10 + (IF (LongMin + dg) % 10 = 0 THEN 0 ELSE 1)
             THEN [ok |-> FALSE, val |-> 0]
             ELSE NegDigits(Tail(t), 10 * acc - dg)

(* atol(text): an optional sign, then decimal digits up to the first       *)
(* character that is not one.  A value outside long is undefined: any of   *)
(* the clamped or wrapped results a library returns.                       *)
Atol(t) ==
    LET neg  == t # <<>> /\ Head(t) = ChMinus
        body == IF neg THEN Tail(t) ELSE t
        r    == NegDigits(body, 0)
    IN  IF ~r.ok \/ (~neg /\ r.val = LongMin)
        THEN {LongMin, 0 - (LongMin + 1), 0, -1}
        ELSE {IF neg THEN r.val ELSE 0 - r.val}

(* long asNumber(): atol(buffer + last).                                   *)
AsNumber(d, g) == Atol(TextAt(d, d.last, g))

---------------------------------------------------------------------------
(*                        Bounds and input domains                         *)

MaxEncCalls == 3     \* encoder calls explored between two resets
MaxCalls    == 5     \* encoder calls in one generated message
MaxDepth    == 2     \* nesting depth of a generated message
MaxCycles   == 2     \* decode cycles of one decoder
MaxEndCalls == 3     \* nextToken() calls followed at the END tag
MaxToks     == 260   \* tokens read in one walk
MaxFeed     == 5     \* process() calls on arbitrary bytes
TwoDigitLen   == 10  \* a string whose length prefix has two digits
ThreeDigitLen == 100 \* a string whose length prefix has three digits
EncSmall    == 4     \* a small encoder buffer
EncLarge    == 300   \* an encoder buffer longer than its 8-bit cursor reaches

(* The longest output buffIdx (a uint8_t) can count.                       *)
EncCap  == 255
(* The largest long, and the deepest nesting a signed char counts.         *)
LongMax == 2147483647
CharMax == 127

SmallStrs == {<<>>, <<ChColon>>, <<ChE, 0, 200>>}
SmallInts == {-3, 0, 12}
KeyStrs   == {<<ChColon>>}
FillByte  == 120

Atoms == {<<CStr(b)>> : b \in SmallStrs} \cup {<<CInt(v)>> : v \in SmallInts}

(* The call sequences of the bencode values nested at most d deep, with    *)
(* lists of up to two items and dictionaries of up to two pairs.           *)
RECURSIVE Values(_)
Values(d) ==
    IF d = 0 THEN Atoms
    ELSE LET V == Values(d - 1)
             K == {CStr(k) : k \in KeyStrs}
             In(n) == {a \in V : Len(a) <= MaxCalls - n}
         IN  V \cup {<<CSL, CEL>>, <<CSD, CED>>}
               \cup {<<CSL>> \o a \o <<CEL>> : a \in In(2)}
               \cup UNION {{<<CSL>> \o a \o b \o <<CEL>> : b \in In(2 + Len(a))} : a \in In(3)}
               \cup {<<CSD, k>> \o v \o <<CED>> : k \in K, v \in In(3)}
               \cup UNION {{<<CSD, k>> \o v \o <<k>> \o w \o <<CED>> :
                               k \in K, w \in In(4 + Len(v))} : v \in In(5)}

Nest(n) == Fill(n, CSL) \o Fill(n, CEL)

SmallMessages == Values(MaxDepth)

(* Messages at the limits of the formats: long strings, one of them ending *)
(* in a zero and an END byte, the extreme longs, the deepest nesting whose tokens   *)
(* still fit a 255-byte buffer.                                            *)
BigMessages ==
    {<<CStr(Fill(n, FillByte))>> : n \in {TwoDigitLen, ThreeDigitLen, T_NUMBER - 1, T_NUMBER}}
    \cup {<<CStr(Fill(T_NUMBER - 2, FillByte) \o <<0, T_END>>)>>}
    \cup {<<CInt(LongMax)>>, <<CInt(LongMin)>>, Nest(CharMax)}

(* A message nested one level deeper than a signed char counts; its 256    *)
(* wire bytes are more than one encoder buffer holds, so it arrives from a *)
(* peer.                                                                   *)
DeepCalls == Nest(CharMax + 1)
DeepWire  == Fill(CharMax + 1, ChL) \o Fill(CharMax + 1, ChE)

(* The same nesting around one empty string.                               *)
DeepItemCalls == Fill(CharMax + 1, CSL) \o <<CStr(<<>>)>> \o Fill(CharMax + 1, CEL)
DeepItemWire  == Fill(CharMax + 1, ChL) \o <<Ch0, ChColon>> \o Fill(CharMax + 1, ChE)

(* A buffer length the 8-bit cursor never reaches: AddToBuf never finds    *)
(* this buffer full.                                                       *)
Roomy == ByteMod + 1

SmallBufLens == {4, 7, 16}
BigBufLens   == {ThreeDigitLen + 3, T_NUMBER + 3, EncCap}

(* The encoder states a sequence of calls can end in.                      *)
RECURSIVE EncodeAll(_, _)
EncodeAll(E, cs) ==
    IF cs = <<>> THEN E
    ELSE IF Len(cs) = 1 THEN UNION {Apply(e, cs[1]) : e \in E}
    ELSE LET h == Len(cs) \div 2
             M == EncodeAll(E, SubSeq(cs, 1, h))
         IN  IF M = {} THEN {} ELSE EncodeAll(M, SubSeq(cs, h + 1, Len(cs)))

(* The output of the encoder: buffer[0 .. buffIdx).                        *)
Output(e) == [i \in 1..e.buffIdx |-> e.buffer[i - 1]]

---------------------------------------------------------------------------
(*             What the documents say a message looks like                 *)

(* The value a sequence of decimal digit characters denotes, as the two    *)
(* halves of a uint32_t (see ToU32).                                       *)
RECURSIVE DecValue(_, _)
DecValue(ds, acc) ==
    IF ds = <<>> THEN acc
    ELSE LET lo10 == acc.lo * 10 + (Head(ds) - Ch0)
         IN  DecValue(Tail(ds), [hi |-> acc.hi * 10 + (lo10 \div HalfMod),
                                 lo |-> lo10 % HalfMod])

(* ds is the decimal form of the uint32_t u, without leading zeros.        *)
IsDecimalOf(ds, u) ==
    /\ Len(ds) >= 1
    /\ \A i \in 1..Len(ds) : IsDigit(ds[i])
    /\ Len(ds) > 1 => ds[1] # Ch0
    /\ Len(ds) <= 10
    /\ DecValue(ds, [hi |-> 0, lo |-> 0]) = u

(* The magnitude of a 32-bit long as a uint32_t.                           *)
Magnitude(v) ==
    IF v = LongMin THEN [hi |-> HalfMod \div 2, lo |-> 0]
    ELSE IF v < 0 THEN ToU32(0 - v) ELSE ToU32(v)

(* w is the wire form of the call c.                                       *)
IsWireOf(w, c) ==
    CASE c.op = "push_bytes" ->
            \E k \in 1..3 :
                /\ Len(w) = k + 1 + Len(c.bytes)
                /\ IsDecimalOf(SubSeq(w, 1, k), ToU32(Len(c.bytes)))
                /\ w[k + 1] = ChColon
                /\ SubSeq(w, k + 2, Len(w)) = c.bytes
      [] c.op = "push_long" ->
            LET sg == IF c.val < 0 THEN 1 ELSE 0
            IN  /\ Len(w) >= 3 + sg
                /\ w[1] = ChI
                /\ sg = 1 => w[2] = ChMinus
                /\ IsDecimalOf(SubSeq(w, 2 + sg, Len(w) - 1), Magnitude(c.val))
                /\ w[Len(w)] = ChE
      [] c.op = "pushZero"  -> w = <<ChI, Ch0, ChE>>
      [] c.op = "startList" -> w = <<ChL>>
      [] c.op = "startDict" -> w = <<ChD>>
      [] c.op \in {"endList", "endDict"} -> w = <<ChE>>

(* w is the concatenation of the wire forms of the calls cs, in order.     *)
RECURSIVE IsWireOfAll(_, _)
IsWireOfAll(w, cs) ==
    IF cs = <<>> THEN w = <<>>
    ELSE \E k \in 1..Len(w) :
            /\ IsWireOf(SubSeq(w, 1, k), Head(cs))
            /\ IsWireOfAll(SubSeq(w, k + 1, Len(w)), Tail(cs))

(* The token a call of the message is to be read back as.                  *)
ExpTok(c) ==
    CASE c.op = "push_bytes" -> [kind |-> T_STRING, bytes |-> c.bytes, num |-> 0]
      [] c.op \in {"push_long", "pushZero"} -> [kind |-> T_NUMBER, bytes |-> <<>>, num |-> c.val]
      [] c.op = "startList" -> [kind |-> T_LIST, bytes |-> <<>>, num |-> 0]
      [] c.op = "startDict" -> [kind |-> T_DICT, bytes |-> <<>>, num |-> 0]
      [] c.op \in {"endList", "endDict"} -> [kind |-> T_POP, bytes |-> <<>>, num |-> 0]

Expected(cs) == [k \in 1..Len(cs) |-> ExpTok(cs[k])]

(* How many characters the decimal text of a long has, sign included.      *)
RECURSIVE NDigits(_)
NDigits(n) == IF n < 10 THEN 1 ELSE 1 + NDigits(n \div 10)
TextLen(v) ==
    IF v = LongMin THEN 11 ELSE IF v < 0 THEN 1 + NDigits(0 - v) ELSE NDigits(v)

(* The buffer bytes of a call's token: tag, payload and terminator.        *)
TokBytes(c) ==
    CASE c.op = "push_bytes" -> Len(c.bytes) + 2
      [] c.op \in {"push_long", "pushZero"} -> TextLen(c.val) + 2
      [] OTHER -> 1

RECURSIVE SumTok(_)
SumTok(cs) ==
    IF cs = <<>> THEN 0
    ELSE IF Len(cs) = 1 THEN TokBytes(cs[1])
    ELSE LET h == Len(cs) \div 2
         IN  SumTok(SubSeq(cs, 1, h)) + SumTok(SubSeq(cs, h + 1, Len(cs)))

(* The buffer bytes of a message's token stream, its END tag included.     *)
StreamLen(cs) == SumTok(cs) + 1

(* The wire length of a call.                                              *)
WireLen(c) ==
    CASE c.op = "push_bytes" -> NDigits(Len(c.bytes)) + 1 + Len(c.bytes)
      [] c.op \in {"push_long", "pushZero"} -> TextLen(c.val) + 2
      [] OTHER -> 1

IsOpen(c)  == c.op \in {"startList", "startDict"}
IsClose(c) == c.op \in {"endList", "endDict"}

(* After the first p wire bytes of the message cs: how many scopes have    *)
(* been opened and not closed.                                             *)
RECURSIVE SumWire(_)
SumWire(cs) ==
    IF cs = <<>> THEN 0
    ELSE IF Len(cs) = 1 THEN WireLen(cs[1])
    ELSE LET h == Len(cs) \div 2
         IN  SumWire(SubSeq(cs, 1, h)) + SumWire(SubSeq(cs, h + 1, Len(cs)))

RECURSIVE OpenAfter(_, _)
OpenAfter(cs, p) ==
    IF cs = <<>> THEN 0
    ELSE IF Len(cs) = 1
    THEN IF WireLen(cs[1]) > p THEN 0
         ELSE IF IsOpen(cs[1]) THEN 1 ELSE IF IsClose(cs[1]) THEN -1 ELSE 0
    ELSE LET h  == Len(cs) \div 2
             L  == SubSeq(cs, 1, h)
             wl == SumWire(L)
         IN  IF wl > p THEN OpenAfter(L, p)
             ELSE OpenAfter(L, wl) + OpenAfter(SubSeq(cs, h + 1, Len(cs)), p - wl)

(* The net number of scopes a run of calls opens, and the largest number   *)
(* open at once during it.                                                 *)
RECURSIVE Scopes(_)
Scopes(cs) ==
    IF cs = <<>> THEN [net |-> 0, max |-> 0]
    ELSE IF Len(cs) = 1
    THEN IF IsOpen(cs[1]) THEN [net |-> 1, max |-> 1]
         ELSE IF IsClose(cs[1]) THEN [net |-> -1, max |-> 0]
         ELSE [net |-> 0, max |-> 0]
    ELSE LET h == Len(cs) \div 2
             l == Scopes(SubSeq(cs, 1, h))
             r == Scopes(SubSeq(cs, h + 1, Len(cs)))
         IN  [net |-> l.net + r.net,
              max |-> IF l.max >= l.net + r.max THEN l.max ELSE l.net + r.max]

MaxOpen(cs) == Scopes(cs).max

(* The longest byte string of a message.                                   *)
MaxStr(cs) ==
    LET S == {Len(cs[k].bytes) : k \in 1..Len(cs)} \cup {0}
    IN  CHOOSE x \in S : \A y \in S : y <= x

---------------------------------------------------------------------------
(*                     The encoder driven by its caller                    *)

EncStrs ==
    {<<>>, <<ChColon>>, <<ChE, 0, 200>>, <<115, 112, 97, 109>>, Fill(T_NUMBER, FillByte)}
EncInts == {LongMin, -3, 0, 3, 12, LongMax}

Idle == DecNew(1, TRUE, 0)

InitEnc ==
    /\ enc \in {EncNew(b, g) : b \in {EncSmall, EncLarge}, g \in Garbage}
    /\ calls = <<>>
    /\ dec = Idle
    /\ wire = <<>>
    /\ cycle = 1
    /\ pos = 0
    /\ ret = 0
    /\ phase = "enc"
    /\ toks = <<>>
    /\ tok = -1
    /\ endCalls = 0
    /\ endPos = 0
    /\ inp = -1
    /\ ref = Idle
    /\ refRet = 0

(* One call c of the encoder's interface.                                  *)
EncDo(c) ==
    /\ phase = "enc"
    /\ ~enc.ub
    /\ Len(calls) < MaxEncCalls
    /\ enc' \in Apply(enc, c)
    /\ calls' = Append(calls, c)
    /\ UNCHANGED <<dec, wire, cycle, pos, ret, phase, toks, tok, endCalls, endPos>>
    /\ UNCHANGED <<inp, ref, refRet>>

EncPush      == \E b \in EncStrs : EncDo(CStr(b))
EncPushLong  == \E v \in EncInts : EncDo(CInt(v))
EncPushZero  == EncDo(CZero)
EncStartList == EncDo(CSL)
EncEndList   == EncDo(CEL)
EncStartDict == EncDo(CSD)
EncEndDict   == EncDo(CED)

EncReset ==
    /\ phase = "enc"
    /\ ~enc.ub
    /\ calls # <<>>
    /\ enc' = EncResetOp(enc)
    /\ calls' = <<>>
    /\ UNCHANGED <<dec, wire, cycle, pos, ret, phase, toks, tok, endCalls, endPos>>
    /\ UNCHANGED <<inp, ref, refRet>>

NextEnc ==
    \/ EncPush
    \/ EncPushLong
    \/ EncPushZero
    \/ EncStartList
    \/ EncEndList
    \/ EncStartDict
    \/ EncEndDict
    \/ EncReset

SpecEnc == InitEnc /\ [][NextEnc]_vars

---------------------------------------------------------------------------
(*        One message: encoded, fed byte by byte, then walked              *)

(* The message and the decoder it is fed to: a message the encoder wrote   *)
(* into a reset buffer of the largest size its cursor addresses, or the    *)
(* deeply nested message of a peer.                                        *)
Init ==
    /\ \/ /\ \E m \in SmallMessages \cup BigMessages :
                /\ calls = m
                /\ enc \in {e \in EncodeAll({EncResetOp(EncNew(EncCap, 0))}, m) : ~e.ub}
          /\ wire = Output(enc)
       \/ /\ calls = DeepCalls
          /\ enc = EncResetOp(EncNew(EncCap, 0))
          /\ wire = DeepWire
       \/ /\ calls = DeepItemCalls
          /\ enc = EncResetOp(EncNew(EncCap, 0))
          /\ wire = DeepItemWire
    /\ dec \in {DecNew(b, sg, g) :
                   b \in (IF Len(wire) > 2 * MaxCalls + 6 THEN BigBufLens ELSE SmallBufLens),
                   sg \in BOOLEAN, g \in Garbage}
    /\ cycle = 1
    /\ pos = 0
    /\ ret = 0
    /\ phase = "feed"
    /\ toks = <<>>
    /\ tok = -1
    /\ endCalls = 0
    /\ endPos = 0
    /\ inp = -1
    /\ ref = DecNew(Roomy, dec.isSigned, 0)
    /\ refRet = 0

(* The caller passes the next byte of the message to process(), and turns  *)
(* to the iterator when process() returns a count.  The same byte goes to  *)
(* the decoder ref, whose buffer is never full.                            *)
Feed ==
    /\ phase = "feed"
    /\ pos < Len(wire)
    /\ inp' = wire[pos + 1]
    /\ LET r == Process(dec, wire[pos + 1])
       IN  /\ dec' = r.d
           /\ ret' = r.ret
           /\ phase' = IF r.ret > 0 THEN "walk" ELSE "feed"
    /\ LET r == Process(ref, wire[pos + 1])
       IN  /\ ref' = r.d
           /\ refRet' = r.ret
    /\ pos' = pos + 1
    /\ UNCHANGED <<enc, calls, wire, cycle, toks, tok, endCalls, endPos>>

(* What the caller reads of the token nextToken() has just returned.       *)
TokensOf(d, t, g) ==
    IF t = T_STRING THEN {[kind |-> T_STRING, bytes |-> Payload(d, g), num |-> 0]}
    ELSE IF t = T_NUMBER THEN {[kind |-> T_NUMBER, bytes |-> <<>>, num |-> n] : n \in AsNumber(d, g)}
    ELSE {[kind |-> t, bytes |-> <<>>, num |-> 0]}

(* The caller calls nextToken() and, on a string or number, asString() or  *)
(* asNumber(); g is what a read outside the buffer yields.                 *)
NextTok ==
    /\ phase = "walk" \/ (phase = "done" /\ endCalls < MaxEndCalls)
    /\ Len(toks) < MaxToks
    /\ \E g \in Garbage :
          LET r == NextToken(dec, g)
          IN  /\ r.d.next # -1
              /\ dec' = r.d
              /\ tok' = r.tok
              /\ IF phase = "done"
                 THEN /\ toks' = toks
                      /\ endCalls' = endCalls + 1
                      /\ endPos' = endPos
                      /\ phase' = "done"
                 ELSE IF r.tok = T_END
                 THEN /\ toks' = toks
                      /\ endCalls' = 1
                      /\ endPos' = r.d.next
                      /\ phase' = "done"
                 ELSE /\ toks' \in {Append(toks, t) : t \in TokensOf(r.d, r.tok, g)}
                      /\ endCalls' = 0
                      /\ endPos' = 0
                      /\ phase' = "walk"
    /\ UNCHANGED <<enc, calls, wire, cycle, pos, ret, inp, ref, refRet>>

(* The caller is done with the tokens, calls reset() and feeds the message *)
(* again.                                                                  *)
Recycle ==
    /\ phase = "done"
    /\ cycle < MaxCycles
    /\ dec' = DecReset([dec EXCEPT !.wr = <<>>])
    /\ cycle' = cycle + 1
    /\ pos' = 0
    /\ ret' = 0
    /\ phase' = "feed"
    /\ toks' = <<>>
    /\ tok' = -1
    /\ endCalls' = 0
    /\ endPos' = 0
    /\ inp' = -1
    /\ ref' = DecReset([ref EXCEPT !.wr = <<>>])
    /\ refRet' = 0
    /\ UNCHANGED <<enc, calls, wire>>

Next ==
    \/ Feed
    \/ NextTok
    \/ Recycle

Spec == Init /\ [][Next]_vars

---------------------------------------------------------------------------
(*               The decoder on arbitrary bytes and resets                 *)

Alphabet == {Ch0, Ch0 + 2, ChColon, ChE, ChI, ChL, FillByte}
TinyBufLens == {1, 4}

InitDec ==
    /\ enc = EncNew(1, 0)
    /\ calls = <<>>
    /\ dec \in {DecNew(b, sg, g) : b \in TinyBufLens, sg \in BOOLEAN, g \in Garbage}
    /\ wire = <<>>
    /\ cycle = 1
    /\ pos = 0
    /\ ret = 0
    /\ phase = "feed"
    /\ toks = <<>>
    /\ tok = -1
    /\ endCalls = 0
    /\ endPos = 0
    /\ inp = -1
    /\ ref = Idle
    /\ refRet = 0

(* process(ch) on any byte; not while the iterator is using the cursor.    *)
ProcessAny ==
    /\ phase = "feed" \/ (phase = "walk" /\ tok = -1)
    /\ pos < MaxFeed
    /\ \E ch \in Alphabet :
          LET r == Process(dec, ch)
          IN  /\ dec' = r.d
              /\ ret' = r.ret
              /\ phase' = IF r.ret > 0 THEN "walk" ELSE "feed"
    /\ pos' = pos + 1
    /\ toks' = <<>>
    /\ tok' = -1
    /\ endCalls' = 0
    /\ endPos' = 0
    /\ UNCHANGED <<enc, calls, wire, cycle, inp, ref, refRet>>

(* reset() at any time.                                                    *)
ResetAny ==
    /\ dec' = DecReset([dec EXCEPT !.wr = <<>>])
    /\ ret' = 0
    /\ phase' = "feed"
    /\ toks' = <<>>
    /\ tok' = -1
    /\ endCalls' = 0
    /\ endPos' = 0
    /\ UNCHANGED <<enc, calls, wire, cycle, pos, inp, ref, refRet>>

NextDec ==
    \/ ProcessAny
    \/ ResetAny
    \/ NextTok

SpecDec == InitDec /\ [][NextDec]_vars

---------------------------------------------------------------------------
(*        A decoder reset after any use, next to a fresh decoder           *)

MaxBefore == 2       \* process() calls before the reset
MaxAfter  == 2       \* process() calls after the reset

ResetAlphabet == {Ch0, Ch0 + 1, ChColon, ChE, ChI, ChL}

(* dec is constructed, over memory that held zeros, and then used; ref is  *)
(* constructed when dec is reset.                                          *)
InitReset ==
    /\ enc = EncNew(1, 0)
    /\ calls = <<>>
    /\ dec \in {DecNew(b, sg, 0) : b \in TinyBufLens, sg \in BOOLEAN}
    /\ wire = <<>>
    /\ cycle = 1
    /\ pos = 0
    /\ ret = 0
    /\ phase = "before"
    /\ toks = <<>>
    /\ tok = -1
    /\ endCalls = 0
    /\ endPos = 0
    /\ inp = -1
    /\ ref = Idle
    /\ refRet = 0

(* process(ch) on dec, any byte; not while the iterator is using the       *)
(* cursor.                                                                 *)
ProcessBefore ==
    /\ phase = "before"
    /\ tok = -1
    /\ pos < MaxBefore
    /\ \E ch \in ResetAlphabet :
          LET r == Process(dec, ch)
          IN  /\ dec' = r.d
              /\ ret' = r.ret
              /\ inp' = ch
    /\ pos' = pos + 1
    /\ UNCHANGED <<enc, calls, wire, cycle, phase, toks, tok, endCalls, endPos, ref, refRet>>

(* nextToken() on dec, whatever its buffer holds.                          *)
NextTokBefore ==
    /\ phase = "before"
    /\ endCalls < MaxEndCalls
    /\ \E g \in Garbage :
          LET r == NextToken(dec, g)
          IN  /\ r.d.next # -1
              /\ dec' = r.d
              /\ tok' = r.tok
    /\ endCalls' = endCalls + 1
    /\ inp' = -1
    /\ UNCHANGED <<enc, calls, wire, cycle, pos, ret, phase, toks, endPos, ref, refRet>>

(* reset() on dec, in whatever state it is; ref is constructed now, with   *)
(* the same template argument on the same build.                           *)
ResetBefore ==
    /\ phase = "before"
    /\ dec' = DecReset([dec EXCEPT !.wr = <<>>])
    /\ ref' \in {DecNew(dec.bufLen, dec.isSigned, g) : g \in Garbage}
    /\ phase' = "after"
    /\ pos' = 0
    /\ ret' = 0
    /\ refRet' = 0
    /\ tok' = -1
    /\ endCalls' = 0
    /\ inp' = -1
    /\ UNCHANGED <<enc, calls, wire, cycle, toks, endPos>>

(* process(ch) on dec and on ref, the same byte.                           *)
ProcessAfter ==
    /\ phase = "after"
    /\ pos < MaxAfter
    /\ \E ch \in ResetAlphabet :
          /\ LET r == Process(dec, ch)
             IN  dec' = r.d /\ ret' = r.ret
          /\ LET r == Process(ref, ch)
             IN  ref' = r.d /\ refRet' = r.ret
          /\ inp' = ch
    /\ pos' = pos + 1
    /\ UNCHANGED <<enc, calls, wire, cycle, phase, toks, tok, endCalls, endPos>>

(* No message is in progress in d: nothing is stored and nothing is open.  *)
NoMessage(d) == d.state = EMB_ANY /\ d.level = 0 /\ d.next = 0

(* reset() on dec once more, while no message is in progress; ref is left  *)
(* alone.                                                                  *)
ResetAfter ==
    /\ phase = "after"
    /\ NoMessage(dec)
    /\ dec' = DecReset([dec EXCEPT !.wr = <<>>])
    /\ UNCHANGED <<enc, calls, wire, cycle, pos, ret, phase, toks, tok, endCalls, endPos,
                   inp, ref, refRet>>

NextReset ==
    \/ ProcessBefore
    \/ NextTokBefore
    \/ ResetBefore
    \/ ProcessAfter
    \/ ResetAfter

SpecReset == InitReset /\ [][NextReset]_vars

---------------------------------------------------------------------------
(*                               The claims                                *)

(* The token stream of the message fits the decode buffer.                 *)
Fits == StreamLen(calls) <= dec.bufLen

(* The decoder has signalled completion and the caller has walked the      *)
(* buffer up to T_END.                                                     *)
Walked == phase = "done"

(* C1. Round trip: when the encoder's bytes for a value whose token stream *)
(* fits the decode buffer have been fed to a reset decoder and the buffer  *)
(* walked until T_END, the tokens read are the value's: the same kinds in  *)
(* the same order, each string with its bytes, each integer with its       *)
(* value, each list and dictionary opened and closed by a POP.             *)
RoundTrip == (Walked /\ Fits) => toks = Expected(calls)

(* The round trip of C1 for the values whose byte strings are no longer    *)
(* than the largest string tag, T_NUMBER - 1.                              *)
RoundTripShortStrings ==
    (Walked /\ Fits /\ MaxStr(calls) < T_NUMBER) => toks = Expected(calls)

(* C2. Completion signal: feeding a well-formed message with strings of at *)
(* most 250 bytes whose token stream fits the buffer, process returns 0 on *)
(* every byte before the last and a count > 0 on the last, and it returns  *)
(* no count while a list or dictionary is open.                            *)
CompletionSignal ==
    (pos > 0 /\ Fits /\ MaxStr(calls) <= 250) =>
        /\ (ret > 0) <=> (pos = Len(wire))
        /\ OpenAfter(calls, pos) > 0 => ret = 0

CompletionSignalSeen ==
    /\ pos = Len(wire) /\ ret > 0 /\ Fits /\ MaxStr(calls) <= 250
    /\ \E k \in 1..Len(calls) : IsOpen(calls[k])
    /\ \E k \in 1..Len(calls) : calls[k].op = "push_bytes" /\ calls[k].bytes # <<>>

(* C3. Decoder memory safety: whatever bytes are processed and whenever    *)
(* reset is called, every store of the decoder is at an index in           *)
(* 0..bufLen-1 and the write cursor next is at most bufLen.                *)
DecoderMemorySafe ==
    /\ \A k \in 1..Len(dec.wr) : 0 <= dec.wr[k] /\ dec.wr[k] < dec.bufLen
    /\ tok = -1 => dec.next <= dec.bufLen

DecoderFullSeen == dec.ovf /\ Len(dec.wr) >= 2 /\ dec.next = dec.bufLen /\ dec.bufLen > 1

(* C4. Overflow invalidates the message: from a store attempted on a full  *)
(* buffer until the next store after a reset, slot 0 holds the END tag, so *)
(* the first nextToken after the completion signal returns T_END and no    *)
(* token of the message is read.                                           *)
OverflowInvalidates ==
    dec.ovf => /\ dec.buffer[0] = T_END
               /\ tok # -1 => (tok = T_END /\ toks = <<>>)

OverflowWalked == dec.ovf /\ Walked /\ dec.att > dec.bufLen + 1 /\ dec.bufLen > 1

EncoderBounds ==
    /\ \A k \in 1..Len(enc.wr) : enc.wr[k] < enc.bufLen
    /\ ~enc.wrapped

(* The calls C7 is about.                                                  *)
WireCalls ==
    \A k \in 1..Len(calls) :
        calls[k].op \in {"push_bytes", "startList", "endList", "startDict", "endDict"}

(* C7. Encoder wire form: when the buffer is large enough for what the     *)
(* calls emit, buffer[0..buffIdx) is the concatenation of the calls' wire  *)
(* forms and buffIdx is the number of characters emitted.                  *)
EncoderWireForm ==
    (WireCalls /\ SumWire(calls) <= enc.bufLen) =>
        /\ enc.buffIdx = SumWire(calls)
        /\ IsWireOfAll(Output(enc), calls)

(* The wire form of C7 where the characters emitted are also no more than  *)
(* the 8-bit cursor counts.                                                *)
EncoderWireFormAddressable ==
    (WireCalls /\ SumWire(calls) <= enc.bufLen /\ SumWire(calls) <= EncCap) =>
        /\ enc.buffIdx = SumWire(calls)
        /\ IsWireOfAll(Output(enc), calls)

(* The calls C8 is about.                                                  *)
LongCalls == \A k \in 1..Len(calls) : calls[k].op = "push_long"

(* C8. Encoder integer form: push(long) emits 'i', a '-' exactly for a     *)
(* negative value, the decimal digits of the magnitude without leading     *)
(* zeros, and 'e', for every 32-bit value, the smallest included.          *)
EncoderIntegerForm ==
    (LongCalls /\ SumWire(calls) <= enc.bufLen /\ SumWire(calls) <= EncCap) =>
        /\ ~enc.ub
        /\ IsWireOfAll(Output(enc), calls)

(* The integer form of C8 for every value but the smallest long.           *)
EncoderIntegerFormAboveMin ==
    (/\ LongCalls /\ SumWire(calls) <= enc.bufLen /\ SumWire(calls) <= EncCap
     /\ \A k \in 1..Len(calls) : calls[k].val # LongMin) =>
        /\ ~enc.ub
        /\ IsWireOfAll(Output(enc), calls)

(* C9. Depth invariant: while a well-formed message is fed, level goes up  *)
(* by one on every list or dictionary opened and down by one on every POP  *)
(* (it is the number of open scopes), it is never negative, and it is zero *)
(* once process has reported completion.                                   *)
DepthInvariant ==
    /\ dec.level >= 0
    /\ ret > 0 => dec.level = 0
    /\ (phase = "feed" /\ ret = 0) => dec.level = OpenAfter(calls, pos)

(* The depth invariant of C9 for the messages nested no deeper than a      *)
(* signed char counts.                                                     *)
DepthInvariantShallow ==
    MaxOpen(calls) <= CharMax => DepthInvariant

(* C10. End-of-stream idempotence: once nextToken has returned T_END,      *)
(* every further call returns T_END and leaves the cursor where it was.    *)
EndIdempotent == Walked => (tok = T_END /\ dec.next = endPos)

EndRepeated == Walked /\ endCalls >= 2 /\ toks # <<>> /\ ~dec.ovf

(* C12. Completion count: when process signals completion and no store was *)
(* refused since the cursor was last at 0, the value returned is the       *)
(* number of buffer bytes the message occupies, every token byte and the   *)
(* END tag counted; END is stored once by the completing call, at index    *)
(* (returned value - 1), and the cursor is back at 0 when process returns. *)
CompletionCount ==
    (ret > 0 /\ tok = -1 /\ ~dec.ovf) =>
        /\ ret = dec.att
        /\ (wire # <<>> /\ Fits) => ret = StreamLen(calls)
        /\ dec.buffer[ret - 1] = T_END
        /\ Cardinality({k \in 1..Len(dec.wr) : dec.wr[k] = ret - 1}) = 1
        /\ dec.wr[Len(dec.wr)] = ret - 1
        /\ dec.next = 0

CompletionCountSeen ==
    /\ ret > 3 /\ tok = -1 /\ ~dec.ovf /\ cycle = 2
    /\ \E k \in 1..Len(calls) : calls[k].op = "push_long"

(* Where the decoder stores the tag of the k-th item of the message.       *)
TagIndex(k) == SumTok(SubSeq(calls, 1, k - 1))

(* C13. String tags never collide with control tags: when a message whose  *)
(* token stream fits the buffer has been fed, the tag byte stored for each *)
(* of its byte strings lies in 0..250, below T_NUMBER, T_DICT, T_LIST,     *)
(* T_POP and T_END, and nextToken reports the token as T_STRING.           *)
StringTagsDistinct ==
    /\ (ret > 0 /\ tok = -1 /\ Fits) =>
          \A k \in 1..Len(calls) :
              calls[k].op = "push_bytes" => dec.buffer[TagIndex(k)] < T_NUMBER
    /\ (phase \in {"walk", "done"} /\ Fits) =>
          \A k \in 1..Len(toks) :
              (k <= Len(calls) /\ calls[k].op = "push_bytes") => toks[k].kind = T_STRING

(* The tags of C13 for the strings no longer than T_NUMBER - 1.            *)
StringTagsDistinctShort ==
    MaxStr(calls) < T_NUMBER => StringTagsDistinct

(* The number of wire bytes of the first k items of the message.           *)
WireEnd(k) == SumWire(SubSeq(calls, 1, k))

(* The k-th item of the message is a byte string of at most 250 bytes, its *)
(* last wire byte is the latest byte processed, and the buffer has room    *)
(* for its token.                                                          *)
StringFed(k) ==
    /\ calls[k].op = "push_bytes"
    /\ Len(calls[k].bytes) < T_NUMBER
    /\ tok = -1
    /\ pos = WireEnd(k)
    /\ TagIndex(k) + Len(calls[k].bytes) + 2 <= dec.bufLen

(* C14. String token layout: once the wire string "<L>:" and its L payload *)
(* bytes (0 <= L <= 250) have been processed with room in the buffer, the  *)
(* decoder has stored L + 2 bytes for it: the tag L, the payload bytes     *)
(* unchanged and in order whatever their values, and a zero terminator;    *)
(* and it is back in state ANY, or it has signalled completion.            *)
StringTokenLayout ==
    \A k \in 1..Len(calls) :
        StringFed(k) =>
            LET b == calls[k].bytes
                t == TagIndex(k)
            IN  /\ dec.buffer[t] = Len(b)
                /\ \A j \in 1..Len(b) : dec.buffer[t + j] = b[j]
                /\ dec.buffer[t + Len(b) + 1] = 0
                /\ dec.state = EMB_ANY
                /\ ret = 0 => dec.next = t + Len(b) + 2
                /\ ret > 0 => (dec.next = 0 /\ ret = t + Len(b) + 3)

StringTokenLayoutSeen ==
    \E k \in 1..Len(calls) :
        /\ StringFed(k)
        /\ calls[k].bytes = <<ChE, 0, 200>>
        /\ k > 1 /\ ret = 0

(* C15. Payload extraction: right after nextToken has returned T_STRING or *)
(* T_NUMBER for the k-th item of a message completed in a buffer it fits,  *)
(* asString returns the index of the first payload byte of that token and  *)
(* the number of its payload bytes, the terminator not counted (the        *)
(* declared length of a string, the characters of a number's text, a '-'   *)
(* included), and asNumber returns the integer the number's text denotes.  *)
PayloadExtraction ==
    (phase = "walk" /\ tok \in {T_STRING, T_NUMBER} /\ Fits) =>
        LET k == Len(toks)
            s == AsString(dec)
        IN  /\ k <= Len(calls)
            /\ s.ptr = TagIndex(k) + 1
            /\ tok = T_STRING =>
                  /\ calls[k].op = "push_bytes"
                  /\ s.len = Len(calls[k].bytes)
                  /\ toks[k].bytes = calls[k].bytes
            /\ tok = T_NUMBER =>
                  /\ calls[k].op \in {"push_long", "pushZero"}
                  /\ s.len = TextLen(calls[k].val)
                  /\ toks[k].num = calls[k].val

(* The extraction of C15 from the messages whose strings are no longer     *)
(* than T_NUMBER - 1.                                                      *)
PayloadExtractionShort ==
    MaxStr(calls) < T_NUMBER => PayloadExtraction

PayloadExtractionShortSeen ==
    /\ phase = "walk" /\ tok = T_NUMBER /\ Fits /\ Len(toks) > 1
    /\ toks[Len(toks)].num < 0

(* C18. Iterator stays inside the token stream: on a buffer completed      *)
(* without overflow from a well-formed message with strings of at most 250 *)
(* bytes, each nextToken call reads its tag where the decoder stored the   *)
(* tag of the next item, the kinds come in the order of the items, the     *)
(* cursor never passes the index of the END tag, and T_END is returned by  *)
(* the call after the one that returned the last item's token.             *)
IteratorInStream ==
    (phase \in {"walk", "done"} /\ Fits /\ MaxStr(calls) < T_NUMBER) =>
        /\ Len(toks) <= Len(calls)
        /\ \A k \in 1..Len(toks) : toks[k].kind = ExpTok(calls[k]).kind
        /\ dec.next <= StreamLen(calls) - 1
        /\ phase = "walk" => dec.next = TagIndex(Len(toks) + 1)
        /\ phase = "done" =>
              /\ Len(toks) = Len(calls)
              /\ dec.next = StreamLen(calls) - 1
              /\ dec.buffer[dec.next] = T_END

IteratorInStreamSeen ==
    /\ phase = "done" /\ Fits /\ MaxStr(calls) < T_NUMBER /\ Len(toks) > 3
    /\ \E k \in 1..Len(toks) : toks[k].kind = T_NUMBER
    /\ \E k \in 1..Len(toks) : toks[k].kind = T_STRING /\ toks[k].bytes # <<>>

(* C19. Depth is never negative between calls: whatever bytes are          *)
(* processed, with fewer than 128 scopes open at a time, level is >= 0     *)
(* when a process call has returned, and it is 0 when process has returned *)
(* a nonzero value and when reset has returned.                            *)
DepthNeverNegative ==
    [][/\ dec'.level >= 0
       /\ ret' > 0 => dec'.level = 0
       /\ ResetAny => dec'.level = 0]_vars

DepthNeverNegativeSeen ==
    /\ dec.isSigned /\ ret = 2 /\ tok = -1 /\ pos > 2 /\ dec.level = 0
    /\ dec.buffer[0] = T_POP /\ dec.buffer[1] = T_END

(* C20. Overflow does not desynchronise framing: while a well-formed       *)
(* message with strings of at most 250 bytes whose token stream does not   *)
(* fit the buffer is fed, the parse state, the countdown of string bytes   *)
(* and the nesting depth are those of a decoder whose buffer is never      *)
(* full, so process returns 0 on every byte before the last and a nonzero  *)
(* value on the last, and the decoder is then reset.                       *)
FramingKept ==
    (pos > 0 /\ tok = -1 /\ ~Fits /\ MaxStr(calls) < T_NUMBER) =>
        /\ dec.state = ref.state
        /\ dec.level = ref.level
        /\ dec.state \in {EMB_LEN, EMB_STR} => dec.count = ref.count
        /\ (ret > 0) <=> (refRet > 0)
        /\ (ret > 0) <=> (pos = Len(wire))
        /\ ret > 0 => (dec.level = 0 /\ dec.state = EMB_ANY /\ dec.next = 0)

(* The framing of C20 for the messages nested no deeper than a signed char *)
(* counts.                                                                 *)
FramingKeptShallow ==
    MaxOpen(calls) <= CharMax => FramingKept

(* The tokens nextToken and asString read from offset 0 of d through the   *)
(* END tag, at most n of them.                                             *)
RECURSIVE StreamFrom(_, _)
StreamFrom(d, n) ==
    IF n = 0 THEN <<>>
    ELSE LET r == NextToken(d, 0)
         IN  IF r.tok = T_END \/ r.d.next = -1 THEN <<[kind |-> r.tok, bytes |-> <<>>]>>
             ELSE <<[kind |-> r.tok,
                     bytes |-> IF r.tok \in {T_STRING, T_NUMBER}
                               THEN Payload(r.d, 0) ELSE <<>>]>>
                  \o StreamFrom(r.d, n - 1)

(* C11. Reset discards all history: after reset() on a decoder in any      *)
(* state it can be in, every byte sequence gets the return values from     *)
(* process that a freshly constructed decoder gives, and at completion the *)
(* same tokens from offset 0 through END; further resets while no message  *)
(* is in progress change nothing of this.                                  *)
ResetDiscardsHistory ==
    phase = "after" =>
        /\ ret = refRet
        /\ ret > 0 => StreamFrom(dec, ret) = StreamFrom(ref, ret)

ResetDiscardsHistorySeen ==
    /\ phase = "after" /\ ret = 3 /\ dec.count = 0
    /\ dec.buffer # ref.buffer /\ dec.last # ref.last

(* The step is a process() call in state ANY.                              *)
ProcessInAny == pos' = pos + 1 /\ dec.state = EMB_ANY

(* C16. Unbalanced close is not rejected: on an 'e' in state ANY at depth  *)
(* 0, process stores a POP tag and then an END tag, returns a nonzero      *)
(* value, and leaves the decoder reset: level 0, state ANY, cursor 0.      *)
UnbalancedClose ==
    [][(ProcessInAny /\ dec.level = 0 /\ inp' = ChE) =>
          /\ ret' > 0
          /\ NoMessage(dec')
          /\ Len(dec'.wr) = 2
          /\ dec.bufLen > 1 => /\ dec'.buffer[dec'.wr[1]] = T_POP
                               /\ dec'.buffer[dec'.wr[2]] = T_END]_vars

(* The unbalanced close of C16 on the builds where char is signed.         *)
UnbalancedCloseSigned ==
    [][(ProcessInAny /\ dec.level = 0 /\ inp' = ChE /\ dec.isSigned) =>
          /\ ret' > 0
          /\ NoMessage(dec')
          /\ Len(dec'.wr) = 2
          /\ dec.bufLen > 1 => /\ dec'.buffer[dec'.wr[1]] = T_POP
                               /\ dec'.buffer[dec'.wr[2]] = T_END]_vars

(* A byte process ignores in state ANY.                                    *)
IgnoredByte(ch) == ch \notin (Ch0..Ch9) \cup {ChI, ChD, ChL, ChE}

(* C17. Ignored bytes leave the decoder untouched: in state ANY, on a byte *)
(* that is no digit and none of 'i', 'd', 'l', 'e', process returns 0,     *)
(* stores nothing and leaves state, level, the write cursor and every      *)
(* buffer byte as they were, at any depth.                                 *)
IgnoredUntouched ==
    [][(ProcessInAny /\ IgnoredByte(inp')) =>
          /\ ret' = 0
          /\ dec'.wr = <<>>
          /\ dec'.state = dec.state
          /\ dec'.level = dec.level
          /\ dec'.next = dec.next
          /\ dec'.buffer = dec.buffer]_vars

IgnoredUntouchedSeen ==
    /\ phase = "after" /\ inp = ChColon /\ pos = MaxAfter
    /\ dec.state = EMB_ANY /\ dec.level = 1 /\ dec.next = 1 /\ dec.buffer[0] = T_LIST

=============================================================================
